---- MODULE Spec2Model ----
(***************************************************************************)
(* The CharityRaffle ink! contract (src/lib.rs) as a state machine.        *)
(*                                                                         *)
(* State: the five storage fields of the contract, the host's block        *)
(* timestamp, the calls the contract has made to the host so far, in order *)
(* (events emitted, randomness requested, transfers invoked), and a record *)
(* of the most recent message call and its result.                         *)
(*                                                                         *)
(* Balances (u128) exceed the integers TLC can hold, so a balance is a     *)
(* two-limb number <<hi, lo>> of value hi * Limb + lo, compared and added  *)
(* limb by limb; the deposit limits keep their exact values.               *)
(***************************************************************************)
EXTENDS Integers, Sequences, FiniteSets, TLC

VARIABLES beneficiary, participants, candidates, winners, draw_starts_at,
          now, host, call

vars == <<beneficiary, participants, candidates, winners, draw_starts_at,
          now, host, call>>

\* The contract's storage (lib.rs 17-28).
storage == <<beneficiary, participants, candidates, winners, draw_starts_at>>

-----------------------------------------------------------------------------
(* Bounds *)

\* Accounts that may call the contract: 1..NumAccounts.
NumAccounts == 6

\* rand_int, the u32 read from the host's random bytes, is one of the three
\* values up to MaxRand: with 4 to 6 candidates these select first, middle and
\* last positions, some of them only through the modulo.
MaxRand == 5

\* Block timestamps reach draw_starts_at + MaxLate.
MaxLate == 0

\* Candidates (besides the winners) who call play again.
MaxReplay == 1

-----------------------------------------------------------------------------
(* Program constants *)

DRAW_COUNTDOWN == 900000

MINI_PLAYER_COUNT == 5

\* AccountId's Default::default(), the beneficiary of CharityRaffle::default().
DefaultAccount == 0

\* The block timestamp at construction.
ConstructTime == 0

-----------------------------------------------------------------------------
(* Balances *)

Limb == 10^7

Bal(hi, lo) == <<hi, lo>>

ZeroBalance == Bal(0, 0)

\* a < b
BalLt(a, b) == a[1] < b[1] \/ (a[1] = b[1] /\ a[2] < b[2])

\* a + b
BalAdd(a, b) ==
    LET lo == a[2] + b[2]
    IN  Bal(a[1] + b[1] + (lo \div Limb), lo % Limb)

\* a + 1
BalSucc(a) == BalAdd(a, Bal(0, 1))

\* a - 1, for a > 0
BalPred(a) == IF a[2] > 0 THEN Bal(a[1], a[2] - 1) ELSE Bal(a[1] - 1, Limb - 1)

\* 10000000000000 and 100000000000000, the literals of play's deposit check.
MIN_DEPOSIT == Bal(1000000, 0)

MAX_DEPOSIT == Bal(10000000, 0)

-----------------------------------------------------------------------------
(* Inputs *)

Accounts == 1 .. NumAccounts

\* The beneficiary given to the constructor: the default account, as
\* CharityRaffle::default() passes it.  It never plays.
Beneficiaries == {DefaultAccount}

\* self.env().transferred_balance()
TransferredBalances ==
    {BalPred(MIN_DEPOSIT), MIN_DEPOSIT, MAX_DEPOSIT, BalSucc(MAX_DEPOSIT)}

\* rand_int
RandInts == (MaxRand - 2) .. MaxRand

\* self.env().block_timestamp() of later blocks: the last instant of the
\* countdown, the instant it ends, and instants after it.
BlockTimes ==
    {draw_starts_at - 1} \cup {draw_starts_at + k : k \in 0 .. MaxLate}

\* self.env().caller() of play.  The contract only compares account ids for
\* equality, so executions are the same up to a renaming of the accounts:
\* a caller who has not played yet is named by the next unused id.  The
\* callers who have played are the winners and the first MaxReplay candidates.
PlayCallers ==
    LET n == Cardinality(DOMAIN participants)
        m == IF Len(candidates) < MaxReplay THEN Len(candidates) ELSE MaxReplay
    IN  (IF n < NumAccounts THEN {n + 1} ELSE {})
            \cup {winners[i] : i \in 1 .. Len(winners)}
            \cup {candidates[i] : i \in 1 .. m}

-----------------------------------------------------------------------------
(* Helpers *)

Range(s) == {s[i] : i \in 1 .. Len(s)}

NoCall ==
    [op |-> "none", caller |-> DefaultAccount, value |-> ZeroBalance,
     rand |-> -1, result |-> "none"]

PlayCall(who, balance, result) ==
    [op |-> "play", caller |-> who, value |-> balance, rand |-> -1,
     result |-> result]

DrawCall(rand_int, result) ==
    [op |-> "draw", caller |-> DefaultAccount, value |-> ZeroBalance,
     rand |-> rand_int, result |-> result]

\* The calls to the host: self.env().emit_event(Played { who, balance }),
\* self.env().random(hash of seed), self.env().transfer(to, amount) and
\* the result the host gave the transfer.
EmitPlayed(who, balance) ==
    [fn |-> "emit_event", event |-> "Played", who |-> who, balance |-> balance]

Random(seed) == [fn |-> "random", seed |-> seed]

Transfer(to, amount, ok) ==
    [fn |-> "transfer", to |-> to, amount |-> amount, ok |-> ok]

\* Variant of finished: the raffle only counts as finished past two winners.
FinishedPastTwo == Len(winners) > 2

finished == Len(winners) = 2

\* Variant of InvalidDeposit: the limits themselves are rejected.
InvalidDepositAtLimits(balance) ==
    ~BalLt(MIN_DEPOSIT, balance) \/ ~BalLt(balance, MAX_DEPOSIT)

\* balance < 10000000000000 || balance > 100000000000000
InvalidDeposit(balance) ==
    BalLt(balance, MIN_DEPOSIT) \/ BalLt(MAX_DEPOSIT, balance)

\* Variant of PlayResult: the caller is not looked up among the participants.
PlayResultWithoutLookup(who, balance) ==
    IF finished THEN "Finished"
    ELSE IF InvalidDeposit(balance) THEN "InvalidDepositAmount"
    ELSE "Ok"

\* Variant of PlayResult: the caller is looked up among the candidates.
PlayResultLookingUpCandidates(who, balance) ==
    IF finished THEN "Finished"
    ELSE IF who \in Range(candidates) THEN "HasPlayed"
    ELSE IF InvalidDeposit(balance) THEN "InvalidDepositAmount"
    ELSE "Ok"

\* The early returns of play, in the order of the code.
PlayResult(who, balance) ==
    IF finished THEN "Finished"
    ELSE IF who \in DOMAIN participants THEN "HasPlayed"
    ELSE IF InvalidDeposit(balance) THEN "InvalidDepositAmount"
    ELSE "Ok"

\* Variant of DrawResult: one player fewer than MINI_PLAYER_COUNT is enough.
DrawResultOneFewer ==
    IF finished THEN "Finished"
    ELSE IF now < draw_starts_at THEN "InDrawCountdown"
    ELSE IF Cardinality(DOMAIN participants) < MINI_PLAYER_COUNT - 1
         THEN "NotEnoughPlayer"
    ELSE "Ok"

\* Variant of DrawResult: the player count is checked before the countdown.
DrawResultCountFirst ==
    IF finished THEN "Finished"
    ELSE IF Cardinality(DOMAIN participants) < MINI_PLAYER_COUNT
         THEN "NotEnoughPlayer"
    ELSE IF now < draw_starts_at THEN "InDrawCountdown"
    ELSE "Ok"

\* Variant of DrawResult: the draw opens only after draw_starts_at.
DrawResultStrictlyAfter ==
    IF finished THEN "Finished"
    ELSE IF now <= draw_starts_at THEN "InDrawCountdown"
    ELSE IF Cardinality(DOMAIN participants) < MINI_PLAYER_COUNT
         THEN "NotEnoughPlayer"
    ELSE "Ok"

\* Variant of DrawResult: the number of participants is not checked.
DrawResultWithoutCount ==
    IF finished THEN "Finished"
    ELSE IF now < draw_starts_at THEN "InDrawCountdown"
    ELSE "Ok"

\* The early returns of draw, in the order of the code.
DrawResult ==
    IF finished THEN "Finished"
    ELSE IF now < draw_starts_at THEN "InDrawCountdown"
    ELSE IF Cardinality(DOMAIN participants) < MINI_PLAYER_COUNT
         THEN "NotEnoughPlayer"
    ELSE "Ok"

\* self.env().block_timestamp() * 10 + self.winners.len() as u64
Seed == now * 10 + Len(winners)

\* rand_int % self.candidates.len(), as a 1-based position
WinnerIndex(rand_int) == (rand_int % Len(candidates)) + 1

\* Variant of SwapRemoveDrop: the last element is dropped, whatever `i` is.
DropLast(s, i) == SubSeq(s, 1, Len(s) - 1)

\* Variant of SwapRemoveDrop: nothing is removed.
RemoveNothing(s, i) == s

\* Variant of SwapRemoveDrop: the elements behind `i` move up by one.
RemoveKeepingOrder(s, i) == SubSeq(s, 1, i - 1) \o SubSeq(s, i + 1, Len(s))

\* StorageVec::swap_remove_drop: the last element takes the place of the
\* removed one and the vector shrinks by one.
SwapRemoveDrop(s, i) ==
    LET n == Len(s)
    IN  IF i = n THEN SubSeq(s, 1, n - 1)
        ELSE [SubSeq(s, 1, n - 1) EXCEPT ![i] = s[n]]

RECURSIVE FoldBalances(_, _)
\* self.participants.iter().fold(0, |acc, p| acc + p.1) over the records `m`
\* of the accounts `S`
FoldBalances(m, S) ==
    IF S = {} THEN ZeroBalance
    ELSE LET p == CHOOSE x \in S : TRUE
         IN  BalAdd(FoldBalances(m, S \ {p}), m[p])

\* Variant of TotalBalance: only the deposits of the candidates are summed.
TotalBalanceOfCandidates(m) == FoldBalances(m, Range(candidates))

\* The balance draw passes to transfer.
TotalBalance(m) == FoldBalances(m, DOMAIN m)

-----------------------------------------------------------------------------
(* Operations *)

\* CharityRaffle::new(beneficiary) / CharityRaffle::default()
Init ==
    /\ beneficiary \in Beneficiaries
    /\ participants = << >>
    /\ candidates = << >>
    /\ winners = << >>
    /\ draw_starts_at = ConstructTime + DRAW_COUNTDOWN
    /\ now = ConstructTime
    /\ host = << >>
    /\ call = NoCall

\* The host produces a later block.
NextBlock ==
    /\ \E t \in BlockTimes : t > now /\ now' = t
    /\ call' = NoCall
    /\ UNCHANGED <<storage, host>>

\* Variant of PlayErr: the caller is recorded before the deposit is checked.
PlayErrAfterInsert(who, balance) ==
    /\ PlayResult(who, balance) # "Ok"
    /\ call' = PlayCall(who, balance, PlayResult(who, balance))
    /\ participants' =
            IF PlayResult(who, balance) = "InvalidDepositAmount"
            THEN (who :> balance) @@ participants
            ELSE participants
    /\ UNCHANGED <<beneficiary, candidates, winners, draw_starts_at, now,
                   host>>

\* play() returning Err
PlayErr(who, balance) ==
    /\ PlayResult(who, balance) # "Ok"
    /\ call' = PlayCall(who, balance, PlayResult(who, balance))
    /\ UNCHANGED <<storage, now, host>>

\* Variant of PlayOk: the caller is put at the head of the candidates.
PlayOkAtHead(who, balance) ==
    /\ PlayResult(who, balance) = "Ok"
    /\ participants' = (who :> balance) @@ participants
    /\ candidates' = <<who>> \o candidates
    /\ host' = Append(host, EmitPlayed(who, balance))
    /\ call' = PlayCall(who, balance, "Ok")
    /\ UNCHANGED <<beneficiary, winners, draw_starts_at, now>>

\* Variant of PlayOk: the countdown starts when the MINI_PLAYER_COUNT-th
\* participant enters.
PlayOkStartingCountdown(who, balance) ==
    /\ PlayResult(who, balance) = "Ok"
    /\ participants' = (who :> balance) @@ participants
    /\ candidates' = Append(candidates, who)
    /\ draw_starts_at' =
            IF Cardinality(DOMAIN participants') = MINI_PLAYER_COUNT
            THEN now + DRAW_COUNTDOWN
            ELSE draw_starts_at
    /\ host' = Append(host, EmitPlayed(who, balance))
    /\ call' = PlayCall(who, balance, "Ok")
    /\ UNCHANGED <<beneficiary, winners, now>>

\* play() returning Ok(())
PlayOk(who, balance) ==
    /\ PlayResult(who, balance) = "Ok"
    /\ participants' = (who :> balance) @@ participants
    /\ candidates' = Append(candidates, who)
    /\ host' = Append(host, EmitPlayed(who, balance))
    /\ call' = PlayCall(who, balance, "Ok")
    /\ UNCHANGED <<beneficiary, winners, draw_starts_at, now>>

Play == \E who \in PlayCallers, balance \in TransferredBalances :
            PlayErr(who, balance) \/ PlayOk(who, balance)

\* draw() returning Err
DrawErr ==
    /\ DrawResult # "Ok"
    /\ call' = DrawCall(-1, DrawResult)
    /\ UNCHANGED <<storage, now, host>>

\* Variant of DrawTransfers: a transfer that failed is tried once more.
DrawTransfersWithRetry(ws, transfer_ok) ==
    IF Len(ws) # 2 THEN << >>
    ELSE IF transfer_ok
    THEN <<Transfer(beneficiary, TotalBalance(participants), TRUE)>>
    ELSE <<Transfer(beneficiary, TotalBalance(participants), FALSE),
           Transfer(beneficiary, TotalBalance(participants), TRUE)>>

\* The transfer of a draw that leaves `ws` as the winners: none, or the one
\* of line 137, whose result (transfer_ok) the code discards.
DrawTransfers(ws, transfer_ok) ==
    IF Len(ws) = 2
    THEN <<Transfer(beneficiary, TotalBalance(participants), transfer_ok)>>
    ELSE << >>

\* draw() returning Ok(())
DrawOk(rand_int, transfer_ok) ==
    /\ DrawResult = "Ok"
    /\ LET winner_index == WinnerIndex(rand_int)
       IN  /\ winners' = Append(winners, candidates[winner_index])
           /\ candidates' = SwapRemoveDrop(candidates, winner_index)
    /\ host' = Append(host, Random(Seed))
                    \o DrawTransfers(winners', transfer_ok)
    /\ call' = DrawCall(rand_int, "Ok")
    /\ UNCHANGED <<beneficiary, participants, draw_starts_at, now>>

Draw == DrawErr \/ \E rand_int \in RandInts, transfer_ok \in BOOLEAN :
                       DrawOk(rand_int, transfer_ok)

Next == NextBlock \/ Play \/ Draw

Spec == Init /\ [][Next]_vars

-----------------------------------------------------------------------------
(* Reading the state *)

\* The positions in the host calls of the calls to `fn`.
CallsTo(fn) == {i \in 1 .. Len(host) : host[i].fn = fn}

RECURSIVE SumPlayed(_)
\* The sum of the deposits of the Played events among the host calls `h`.
SumPlayed(h) ==
    IF h = << >> THEN ZeroBalance
    ELSE LET e == h[Len(h)]
             rest == SumPlayed(SubSeq(h, 1, Len(h) - 1))
         IN  IF e.fn = "emit_event" THEN BalAdd(rest, e.balance) ELSE rest

\* The value lies in the closed interval [MIN_DEPOSIT, MAX_DEPOSIT].
InDepositInterval(v) == ~BalLt(v, MIN_DEPOSIT) /\ ~BalLt(MAX_DEPOSIT, v)

NoDuplicates(s) == \A i, j \in 1 .. Len(s) : s[i] = s[j] => i = j

IsPrefix(s, t) == Len(s) <= Len(t) /\ SubSeq(t, 1, Len(s)) = s

\* The step is a call of play or draw that returned an error.
FailedCall == call'.op \in {"play", "draw"} /\ call'.result # "Ok"

\* The step is a call of draw that returned Ok(()).
SuccessfulDraw == call'.op = "draw" /\ call'.result = "Ok"

-----------------------------------------------------------------------------
(* Claims *)

\* C1: the host's transfer is invoked exactly once over the raffle: there is
\* no transfer while fewer than 2 winners are drawn and exactly one from the
\* second successful draw on; it is the call that follows the second draw's
\* request for randomness, its destination is the beneficiary, and its amount
\* is the sum of all deposits accepted before it, those accepted between the
\* two draws included.
C1_TransferExactlyOnce ==
    /\ Cardinality(CallsTo("transfer")) = (IF Len(winners) = 2 THEN 1 ELSE 0)
    /\ \A i \in CallsTo("transfer") :
        /\ i = Len(host)
        /\ host[i - 1].fn = "random"
        /\ Cardinality(CallsTo("random")) = 2
        /\ host[i].to = beneficiary
        /\ host[i].amount = SumPlayed(SubSeq(host, 1, i - 1))
        /\ Cardinality(CallsTo("emit_event")) = Cardinality(DOMAIN participants)

\* C1 witness: the raffle is finished, a participant entered between the two
\* draws, the transfer has been made, and a later call has been rejected.
C1_Witness ==
    /\ Len(winners) = 2
    /\ CallsTo("transfer") # {}
    /\ \E i, j, k \in 1 .. Len(host) :
        /\ i < j /\ j < k
        /\ host[i].fn = "random" /\ host[j].fn = "emit_event"
        /\ host[k].fn = "random"
    /\ call.result = "Finished"

\* C2: the winners list never holds more than 2 identities, it holds as many
\* as there were successful draws, and once it holds 2 every call of play and
\* of draw returns Finished and changes neither the storage nor the host calls.
C2_FinishedForGood ==
    /\ [](Len(winners) <= 2 /\ Len(winners) = Cardinality(CallsTo("random")))
    /\ [][finished =>
            /\ finished'
            /\ storage' = storage
            /\ host' = host
            /\ call'.op \in {"play", "draw"} => call'.result = "Finished"]_vars

\* C2 witness: after two draws an account that never played attaches a valid
\* deposit and is turned away with Finished.
C2_Witness ==
    /\ Len(winners) = 2
    /\ call.op = "play"
    /\ call.caller \notin DOMAIN participants
    /\ call.value = MIN_DEPOSIT
    /\ call.result = "Finished"

\* C3: no identity is in the winners list twice, every winner is a recorded
\* participant and is in the candidate pool no longer, and the identity a step
\* appends to the winners list was in the candidate pool right before the step.
C3_NoReplacement ==
    /\ [](/\ NoDuplicates(winners)
          /\ Range(winners) \subseteq DOMAIN participants
          /\ Range(winners) \cap Range(candidates) = {})
    /\ [][winners' # winners =>
            /\ Len(winners') = Len(winners) + 1
            /\ winners'[Len(winners')] \in Range(candidates)]_vars

\* C3 witness: the first winner calls play again with a valid deposit and is
\* not put back among the candidates.
C3_Witness ==
    /\ Len(winners) = 1
    /\ call.op = "play"
    /\ call.caller = winners[1]
    /\ call.value = MAX_DEPOSIT
    /\ call.result # "Ok"
    /\ winners[1] \notin Range(candidates)

\* C4, as stated: a draw with fewer than 5 participants recorded returns
\* NotEnoughPlayer, whatever the time.  (draw changes neither the participants
\* nor the time, so their values after the call are those of the call.)
C4_NotEnoughPlayersAtAnyTime ==
    (call.op = "draw" /\ Cardinality(DOMAIN participants) < MINI_PLAYER_COUNT)
        => call.result = "NotEnoughPlayer"

\* C4, amended: a draw with fewer than 5 participants recorded fails at any
\* time: with NotEnoughPlayer when the time is at or after draw_starts_at, and
\* with InDrawCountdown when it is before.
C4_NotEnoughPlayersOnceStarted ==
    (call.op = "draw" /\ Cardinality(DOMAIN participants) < MINI_PLAYER_COUNT)
        => call.result =
              (IF now >= draw_starts_at THEN "NotEnoughPlayer"
               ELSE "InDrawCountdown")

\* C4 witness: the countdown has elapsed, 4 participants are recorded and
\* draw has returned NotEnoughPlayer.
C4_Witness ==
    /\ call.op = "draw"
    /\ now >= draw_starts_at
    /\ Cardinality(DOMAIN participants) = MINI_PLAYER_COUNT - 1
    /\ call.result = "NotEnoughPlayer"

\* C5: a draw at a time strictly before draw_starts_at returns InDrawCountdown,
\* with fewer than 5 participants as with 5 and more.
C5_CountdownBeforePlayerCount ==
    (call.op = "draw" /\ now < draw_starts_at)
        => call.result = "InDrawCountdown"

\* C5 witness: one instant before draw_starts_at, with fewer than 5
\* participants, draw has returned InDrawCountdown.
C5_Witness ==
    /\ call.op = "draw"
    /\ now = draw_starts_at - 1
    /\ Cardinality(DOMAIN participants) < MINI_PLAYER_COUNT
    /\ call.result = "InDrawCountdown"

\* C6: when the caller has not entered and the raffle is not finished, play
\* returns Ok exactly when the attached amount lies in [MIN_DEPOSIT,
\* MAX_DEPOSIT] and InvalidDepositAmount otherwise; every recorded deposit lies
\* in that interval.
C6_DepositBounds ==
    /\ [](\A p \in DOMAIN participants : InDepositInterval(participants[p]))
    /\ [][(/\ call'.op = "play"
           /\ call'.caller \notin DOMAIN participants
           /\ ~finished) =>
            /\ call'.result = "Ok" <=> InDepositInterval(call'.value)
            /\ call'.result \in {"Ok", "InvalidDepositAmount"}
            /\ call'.result = "Ok" =>
                    /\ call'.caller \in DOMAIN participants'
                    /\ participants'[call'.caller] = call'.value]_vars

\* C6 witness: deposits of exactly MIN_DEPOSIT and exactly MAX_DEPOSIT are
\* recorded and one of MAX_DEPOSIT + 1 has been refused.
C6_Witness ==
    /\ \E p, q \in DOMAIN participants :
        participants[p] = MIN_DEPOSIT /\ participants[q] = MAX_DEPOSIT
    /\ call.op = "play"
    /\ call.value = BalSucc(MAX_DEPOSIT)
    /\ call.caller \notin DOMAIN participants
    /\ call.result = "InvalidDepositAmount"

\* No identity is twice in the candidate pool and none has had two deposits
\* recorded (two Played events).
EnteredAtMostOnce ==
    /\ NoDuplicates(candidates)
    /\ \A i, j \in CallsTo("emit_event") : host[i].who = host[j].who => i = j
    /\ {host[i].who : i \in CallsTo("emit_event")} = DOMAIN participants

\* C7, as stated: a call of play by a recorded participant returns HasPlayed,
\* and no identity enters twice.  (A failed play changes no storage, so the
\* caller was recorded before the call if it is after it.)
C7_ReplayIsHasPlayed ==
    /\ (/\ call.op = "play"
        /\ call.result # "Ok"
        /\ call.caller \in DOMAIN participants) => call.result = "HasPlayed"
    /\ EnteredAtMostOnce

\* C7, amended: a call of play by a recorded participant fails, whatever the
\* amount and whether or not the caller is a winner: with HasPlayed while the
\* raffle is not finished and with Finished once it is; no identity enters
\* twice.
C7_ReplayFails ==
    /\ []EnteredAtMostOnce
    /\ [][(call'.op = "play" /\ call'.caller \in DOMAIN participants) =>
            /\ call'.result = (IF finished THEN "Finished" ELSE "HasPlayed")
            /\ participants' = participants
            /\ candidates' = candidates]_vars

\* C7 witness: the first winner calls play again with less than MIN_DEPOSIT
\* attached and gets HasPlayed.
C7_Witness ==
    /\ Len(winners) = 1
    /\ call.op = "play"
    /\ call.caller \in Range(winners)
    /\ call.value = BalPred(MIN_DEPOSIT)
    /\ call.result = "HasPlayed"

\* C8: a call of play or draw that returns an error leaves beneficiary,
\* participants, candidates, winners and draw_starts_at as they were and makes
\* no call to the host: no event, no request for randomness, no transfer.
C8_FailedCallChangesNothing ==
    [][FailedCall =>
        /\ call'.result \in {"Finished", "HasPlayed", "InvalidDepositAmount",
                             "InDrawCountdown", "NotEnoughPlayer"}
        /\ beneficiary' = beneficiary
        /\ participants' = participants
        /\ candidates' = candidates
        /\ winners' = winners
        /\ draw_starts_at' = draw_starts_at
        /\ host' = host]_vars

\* C8 witness: between the two draws a new caller's deposit below MIN_DEPOSIT
\* has been refused.
C8_Witness ==
    /\ Len(winners) = 1
    /\ call.op = "play"
    /\ call.caller \notin DOMAIN participants
    /\ call.result = "InvalidDepositAmount"
    /\ Len(host) > MINI_PLAYER_COUNT

\* C9: a successful draw lengthens the winners list by exactly 1 and shortens
\* the candidate pool by exactly 1, and in every step the winners list before
\* the step is a prefix of the winners list after it.
C9_WinnersAppendOnly ==
    /\ [][SuccessfulDraw =>
            /\ Len(winners') = Len(winners) + 1
            /\ Len(candidates') = Len(candidates) - 1]_vars
    /\ [][IsPrefix(winners, winners')]_vars

\* C9 witness: the second draw has succeeded on a pool of 5 candidates.
C9_Witness ==
    /\ call.op = "draw"
    /\ call.result = "Ok"
    /\ Len(winners) = 2
    /\ Len(candidates) = 4

\* The host calls hold a transfer that the host reported as failed.
TransferFailed == \E i \in CallsTo("transfer") : ~host[i].ok

\* C10: the draw whose transfer fails still returns Ok, appends its winner and
\* removes it from the candidates; from then on the raffle is finished and the
\* host calls hold that one transfer and no other.
C10_FailedTransferStands ==
    /\ [](TransferFailed =>
            /\ Len(winners) = 2
            /\ Cardinality(CallsTo("transfer")) = 1
            /\ winners[2] \notin Range(candidates)
            /\ Len(candidates) = Cardinality(DOMAIN participants) - 2)
    /\ [][(~TransferFailed /\ TransferFailed') =>
            /\ SuccessfulDraw
            /\ Len(winners) = 1
            /\ winners' = Append(winners, winners'[2])
            /\ winners'[2] \in Range(candidates)
            /\ Range(candidates') = Range(candidates) \ {winners'[2]}]_vars
    /\ [][TransferFailed => host' = host]_vars

\* C10 witness: the transfer failed, and a later call of draw has been turned
\* away with Finished without another transfer.
C10_Witness ==
    /\ TransferFailed
    /\ call.op = "draw"
    /\ call.result = "Finished"
    /\ Cardinality(CallsTo("transfer")) = 1

\* The events among the host calls, in the order emitted, that are `event`s.
EventsNamed(event) ==
    SelectSeq(host, LAMBDA c : c.fn = "emit_event" /\ c.event = event)

\* C11, as stated: a transfer that the host reported as failed is followed by
\* an event, the signal by which the failure can be told from a success.  (The
\* other outputs of that draw, its result Ok and the storage, are those of a
\* draw whose transfer succeeded.)
C11_FailedTransferSignalled ==
    \A i \in CallsTo("transfer") :
        ~host[i].ok => \E j \in CallsTo("emit_event") : j > i

\* C12, as stated: the Draw events emitted so far carry the winners, one event
\* per successful draw, in the order drawn.
C12_DrawEventPerWinner ==
    LET draws == EventsNamed("Draw")
    IN  /\ Len(draws) = Len(winners)
        /\ \A i \in 1 .. Len(draws) : draws[i].winner = winners[i]

\* C13, as stated: no Finished event is emitted before the second successful
\* draw, and that draw emits exactly one, after its Draw event, carrying the
\* beneficiary and the total passed to the transfer.
C13_FinishedEventOnSecondDraw ==
    LET done == EventsNamed("Finished")
    IN  /\ Len(done) = (IF Len(winners) = 2 THEN 1 ELSE 0)
        /\ \A i \in 1 .. Len(done) :
            /\ done[i].beneficiary = beneficiary
            /\ \A k \in CallsTo("transfer") : done[i].total = host[k].amount
        /\ Len(winners) = 2 =>
            /\ host[Len(host)].fn = "emit_event"
            /\ host[Len(host)].event = "Finished"

\* The step is a call of play that returned Ok(()).
SuccessfulPlay == call'.op = "play" /\ call'.result = "Ok"

\* C14: a successful play records (caller -> attached amount) and changes no
\* other participant's record, appends the caller to the candidate pool,
\* emits Played{caller, attached amount} as its only host call, and leaves
\* winners, beneficiary and draw_starts_at as they were.
C14_PlayEffects ==
    [][SuccessfulPlay =>
        LET who == call'.caller
            balance == call'.value
        IN  /\ who \notin DOMAIN participants
            /\ DOMAIN participants' = DOMAIN participants \cup {who}
            /\ participants'[who] = balance
            /\ \A p \in DOMAIN participants : participants'[p] = participants[p]
            /\ Len(candidates') = Len(candidates) + 1
            /\ SubSeq(candidates', 1, Len(candidates)) = candidates
            /\ candidates'[Len(candidates')] = who
            /\ Len(host') = Len(host) + 1
            /\ SubSeq(host', 1, Len(host)) = host
            /\ host'[Len(host')].fn = "emit_event"
            /\ host'[Len(host')].event = "Played"
            /\ host'[Len(host')].who = who
            /\ host'[Len(host')].balance = balance
            /\ winners' = winners
            /\ beneficiary' = beneficiary
            /\ draw_starts_at' = draw_starts_at]_vars

\* C14 witness: a sixth participant has entered with MAX_DEPOSIT after the
\* first draw, behind the 4 candidates left.
C14_Witness ==
    /\ call.op = "play"
    /\ call.result = "Ok"
    /\ call.value = MAX_DEPOSIT
    /\ Len(winners) = 1
    /\ Len(candidates) = MINI_PLAYER_COUNT
    /\ candidates[Len(candidates)] = call.caller

\* C15: no step removes or changes a participant's record or changes
\* beneficiary or draw_starts_at; draw_starts_at is the construction time plus
\* 900000 and beneficiary the constructor's argument in every state.
C15_WriteOnce ==
    /\ [](/\ draw_starts_at = ConstructTime + 900000
          /\ beneficiary \in Beneficiaries)
    /\ [][/\ \A p \in DOMAIN participants :
                p \in DOMAIN participants' /\ participants'[p] = participants[p]
          /\ beneficiary' = beneficiary
          /\ draw_starts_at' = draw_starts_at]_vars

\* C15 witness: the paying second draw has been made, and the deposits of all
\* who entered (two of them different) are still recorded.
C15_Witness ==
    /\ Len(winners) = 2
    /\ CallsTo("transfer") # {}
    /\ \A i \in CallsTo("emit_event") :
        /\ host[i].who \in DOMAIN participants
        /\ participants[host[i].who] = host[i].balance
    /\ \E p, q \in DOMAIN participants : participants[p] # participants[q]
    /\ now >= draw_starts_at

\* C16: a call of draw returns Ok exactly when fewer than 2 winners are
\* drawn, the time is at or after draw_starts_at and at least 5 participants
\* are recorded (all three read before the call).
C16_DrawSucceedsIffGatesOpen ==
    [][call'.op = "draw" =>
        (call'.result = "Ok" <=>
            /\ Len(winners) < 2
            /\ now >= draw_starts_at
            /\ Cardinality(DOMAIN participants) >= 5)]_vars

\* C16 witness: with 5 entrants, two draws at the instant draw_starts_at
\* itself (their seeds are that of one timestamp) have finished the raffle.
C16_Witness ==
    /\ call.op = "draw"
    /\ call.result = "Ok"
    /\ now = draw_starts_at
    /\ Cardinality(DOMAIN participants) = 5
    /\ Len(winners) = 2
    /\ Cardinality(CallsTo("random")) = 2
    /\ \A i \in CallsTo("random") : host[i].seed \div 10 = draw_starts_at

\* C17: on a successful draw with random integer r and a pool c of n
\* candidates, the identity appended to winners is c[r mod n] (counting from
\* 0) and the new pool is c with that position taken by c's last element and
\* the length reduced to n - 1, every other position keeping its element.
C17_SwapAndTruncate ==
    [][SuccessfulDraw =>
        LET n == Len(candidates)
            k == (call'.rand % n) + 1
        IN  /\ winners' = Append(winners, candidates[k])
            /\ Len(candidates') = n - 1
            /\ \A j \in 1 .. n - 1 :
                candidates'[j] = (IF j = k THEN candidates[n]
                                  ELSE candidates[j])
            /\ Range(candidates') = Range(candidates) \ {candidates[k]}]_vars

\* C17 witness: a random integer beyond the pool's length has selected, through
\* the modulo, a position that is neither the last nor the one before it, so
\* that the last candidate now stands there.
C17_Witness ==
    /\ call.op = "draw"
    /\ call.result = "Ok"
    /\ call.rand > Len(candidates)
    /\ (call.rand % (Len(candidates) + 1)) + 1 < Len(candidates)
    /\ candidates[(call.rand % (Len(candidates) + 1)) + 1] = NumAccounts

\* C19: the candidate pool and the winners list hold no identity twice,
\* share none, together hold exactly the participants, and their lengths add
\* up to the number of participants.
C19_PoolAndWinnersPartition ==
    /\ NoDuplicates(candidates)
    /\ NoDuplicates(winners)
    /\ Range(candidates) \cap Range(winners) = {}
    /\ Range(candidates) \cup Range(winners) = DOMAIN participants
    /\ Len(candidates) + Len(winners) = Cardinality(DOMAIN participants)

\* C19 witness: 6 participants, of whom 2 are winners and 4 candidates, the
\* last entrant no longer standing last in the pool.
C19_Witness ==
    /\ Cardinality(DOMAIN participants) = 6
    /\ Len(winners) = 2
    /\ Len(candidates) = 4
    /\ \E i \in 1 .. 3 : candidates[i] = 6

\* C20: when draw passes its three checks the candidate pool holds at least 4
\* identities, and for every random integer the remainder by the pool's length
\* is a position of the pool (counting from 0).
C20_WinnerIndexInPool ==
    DrawResult = "Ok" =>
        /\ Len(candidates) >= 4
        /\ Len(candidates) >= Cardinality(DOMAIN participants) - 1
        /\ \A rand_int \in RandInts :
            /\ rand_int % Len(candidates) \in 0 .. Len(candidates) - 1
            /\ WinnerIndex(rand_int) \in DOMAIN candidates

\* C20 witness: draw is about to pass its checks on the smallest pool there
\* can be: 5 participants, one of them drawn already.
C20_Witness ==
    /\ DrawResult = "Ok"
    /\ Len(winners) = 1
    /\ Len(candidates) = 4
    /\ \E rand_int \in RandInts : rand_int >= Len(candidates)

-----------------------------------------------------------------------------
(* The seed in 64 bits *)

(***************************************************************************)
(* Timestamp is u64, and the seed of line 123 is computed in u64.  A u64   *)
(* is modelled as four 16-bit limbs <<l3, l2, l1, l0>>, most significant   *)
(* first, so that the product by 10 is computed exactly, with its carry    *)
(* out of 64 bits.  When the carry is not 0 a build without overflow       *)
(* checks wraps (the carry is dropped) and a build with them panics.       *)
(* SpecU64 runs the draws of a raffle that 5 accounts have entered, at     *)
(* timestamps over the whole u64 range.                                    *)
(***************************************************************************)

LimbBase == 2^16

\* The u64 of a small number.
U64(n) == <<0, 0, n \div LimbBase, n % LimbBase>>

\* a < b
U64Lt(a, b) ==
    \E i \in 1 .. 4 : a[i] < b[i] /\ \A j \in 1 .. i - 1 : a[j] = b[j]

\* t * m + c, limb by limb: <<carry out of 64 bits, l3, l2, l1, l0>>
U64MulAdd(t, m, c) ==
    LET p0 == t[4] * m + c
        p1 == t[3] * m + (p0 \div LimbBase)
        p2 == t[2] * m + (p1 \div LimbBase)
        p3 == t[1] * m + (p2 \div LimbBase)
    IN  <<p3 \div LimbBase, p3 % LimbBase, p2 % LimbBase, p1 % LimbBase,
          p0 % LimbBase>>

\* Variant of U64Seed: the number of winners is left out of the seed.
U64SeedWithoutCount(t, n) == SubSeq(U64MulAdd(t, 10, 0), 2, 5)

\* block_timestamp() * 10 + winners.len() as u64, wrapped to 64 bits
U64Seed(t, n) == SubSeq(U64MulAdd(t, 10, n), 2, 5)

\* The computation of the seed overflows 64 bits.
U64SeedOverflows(t, n) == U64MulAdd(t, 10, n)[1] > 0

\* Block timestamps: the instants from draw_starts_at on that the bounds
\* allow, the last timestamp whose seed fits 64 bits and the one after it,
\* 2^63 (its product by 10 wraps to 0), and the largest u64.
U64BlockTimes ==
    {U64(ConstructTime + DRAW_COUNTDOWN + k) : k \in 0 .. MaxLate}
        \cup {<<6553, 39321, 39321, 39321>>, <<6553, 39321, 39321, 39322>>,
              <<32768, 0, 0, 0>>, <<65535, 65535, 65535, 65535>>}

\* The early returns of draw, on u64 timestamps.
U64DrawResult ==
    IF finished THEN "Finished"
    ELSE IF U64Lt(now, draw_starts_at) THEN "InDrawCountdown"
    ELSE IF Cardinality(DOMAIN participants) < MINI_PLAYER_COUNT
         THEN "NotEnoughPlayer"
    ELSE "Ok"

\* A raffle constructed at ConstructTime that accounts 1 .. MINI_PLAYER_COUNT
\* have entered with MIN_DEPOSIT each, at the instant draw_starts_at.
U64Init ==
    /\ beneficiary \in Beneficiaries
    /\ participants = [p \in 1 .. MINI_PLAYER_COUNT |-> MIN_DEPOSIT]
    /\ candidates = [i \in 1 .. MINI_PLAYER_COUNT |-> i]
    /\ winners = << >>
    /\ draw_starts_at = U64(ConstructTime + DRAW_COUNTDOWN)
    /\ now = draw_starts_at
    /\ host = [i \in 1 .. MINI_PLAYER_COUNT |-> EmitPlayed(i, MIN_DEPOSIT)]
    /\ call = NoCall

\* The host produces a later block.
U64NextBlock ==
    /\ \E t \in U64BlockTimes : U64Lt(now, t) /\ now' = t
    /\ call' = NoCall
    /\ UNCHANGED <<storage, host>>

\* draw() returning Err
U64DrawErr ==
    /\ U64DrawResult # "Ok"
    /\ call' = DrawCall(-1, U64DrawResult)
    /\ UNCHANGED <<storage, now, host>>

\* draw() panicking on the overflow of the seed, in a build that checks
\* overflow: the call is reverted.
U64DrawPanic ==
    /\ U64DrawResult = "Ok"
    /\ U64SeedOverflows(now, Len(winners))
    /\ call' = DrawCall(-1, "Panic")
    /\ UNCHANGED <<storage, now, host>>

\* draw() returning Ok(()), the seed wrapped if it overflows
U64DrawOk(rand_int, transfer_ok) ==
    /\ U64DrawResult = "Ok"
    /\ LET winner_index == WinnerIndex(rand_int)
       IN  /\ winners' = Append(winners, candidates[winner_index])
           /\ candidates' = SwapRemoveDrop(candidates, winner_index)
    /\ host' = Append(host, Random(U64Seed(now, Len(winners))))
                    \o DrawTransfers(winners', transfer_ok)
    /\ call' = DrawCall(rand_int, "Ok")
    /\ UNCHANGED <<beneficiary, participants, draw_starts_at, now>>

U64Draw ==
    \/ U64DrawErr
    \/ U64DrawPanic
    \/ \E rand_int \in RandInts, transfer_ok \in BOOLEAN :
            U64DrawOk(rand_int, transfer_ok)

U64Next == U64NextBlock \/ U64Draw

SpecU64 == U64Init /\ [][U64Next]_vars

\* C18: the seeds of the requests for randomness made so far are all
\* different, in 64-bit wrapping arithmetic: the second successful draw never
\* asks with the seed of the first, at the same timestamp or at a later one.
C18_SeedsDiffer ==
    \A i, j \in CallsTo("random") : host[i].seed = host[j].seed => i = j

\* C18 witness: the first draw was made at a timestamp whose seed fits 64
\* bits, the second at a later timestamp whose seed wrapped (it is smaller
\* than the timestamp).
C18_Witness ==
    /\ Len(winners) = 2
    /\ call.op = "draw"
    /\ call.result = "Ok"
    /\ \E i, j \in CallsTo("random") :
        /\ i < j
        /\ host[i].seed = U64((ConstructTime + DRAW_COUNTDOWN) * 10)
        /\ U64Lt(host[j].seed, now)

====
